---------------------------- MODULE Spec2Model ----------------------------
(***************************************************************************)
(* A model of qualys_parser.py: main, parse_qualys_csv, process_rows and   *)
(* is_valid_username.                                                      *)
(*                                                                         *)
(* A Python str is a sequence of one-character strings.  The three         *)
(* characters that matter as line breaks and escapes have names: LF and CR *)
(* are the real line-break characters, BS is the backslash.                *)
(***************************************************************************)
EXTENDS Integers, Sequences, FiniteSets, TLC

LF == "LF"
CR == "CR"
BS == "BS"
SP == " "
TAB == "TAB"

\* Python's None, and the value of a variable not yet assigned.
None == "None"
Unset == "Unset"

LowerSeq == << "a", "b", "c", "d", "e", "f", "g", "h", "i", "j", "k", "l", "m",
               "n", "o", "p", "q", "r", "s", "t", "u", "v", "w", "x", "y", "z" >>
UpperSeq == << "A", "B", "C", "D", "E", "F", "G", "H", "I", "J", "K", "L", "M",
               "N", "O", "P", "Q", "R", "S", "T", "U", "V", "W", "X", "Y", "Z" >>
LowerLetters == { LowerSeq[i] : i \in 1..26 }
UpperLetters == { UpperSeq[i] : i \in 1..26 }
Digits == { "0", "1", "2", "3", "4", "5", "6", "7", "8", "9" }

\* str.strip() with no argument removes whitespace; these are the whitespace
\* characters of the model's alphabet.
Whitespace == { SP, TAB, CR, LF }

---------------------------------------------------------------------------
(* Python str operations, computed as Python computes them.                *)

\* s[i:] for a 1-based i.
Drop(s, i) == SubSeq(s, i, Len(s))

StartsWith(s, pat) == Len(s) >= Len(pat) /\ SubSeq(s, 1, Len(pat)) = pat

\* The 1-based places where pat occurs in s.
Occurrences(s, pat) == { i \in 1..(Len(s) - Len(pat) + 1) : SubSeq(s, i, i + Len(pat) - 1) = pat }

Least(S) == CHOOSE i \in S : \A j \in S : i <= j

\* str.replace(pat, rep): the leftmost occurrence is replaced, and the
\* search goes on after it (occurrences do not overlap).
RECURSIVE Replace(_, _, _)
Replace(s, pat, rep) ==
    IF Occurrences(s, pat) = { } THEN s
    ELSE LET i == Least(Occurrences(s, pat))
         IN  SubSeq(s, 1, i - 1) \o rep \o Replace(Drop(s, i + Len(pat)), pat, rep)

\* str.split(sep) for a one-character sep: always at least one piece.
RECURSIVE Split(_, _)
Split(s, sep) ==
    IF Occurrences(s, << sep >>) = { } THEN << s >>
    ELSE LET i == Least(Occurrences(s, << sep >>))
         IN  << SubSeq(s, 1, i - 1) >> \o Split(Drop(s, i + 1), sep)

RECURSIVE LStrip(_)
LStrip(s) == IF s # << >> /\ s[1] \in Whitespace THEN LStrip(Drop(s, 2)) ELSE s

RECURSIVE RStrip(_)
RStrip(s) ==
    IF s # << >> /\ s[Len(s)] \in Whitespace THEN RStrip(SubSeq(s, 1, Len(s) - 1)) ELSE s

\* str.strip()
Strip(s) == RStrip(LStrip(s))

LowerChar(c) ==
    IF c \in UpperLetters THEN LowerSeq[CHOOSE i \in 1..26 : UpperSeq[i] = c] ELSE c

\* str.lower()
Lower(s) == [ i \in 1..Len(s) |-> LowerChar(s[i]) ]

---------------------------------------------------------------------------
(* is_valid_username                                                       *)

MaxUsernameLen == 32

\* [a-z_] under re.IGNORECASE
FirstChar(c) == c \in LowerLetters \cup UpperLetters \cup { "_" }

\* [a-z0-9_-] under re.IGNORECASE
RestChar(c) == c \in LowerLetters \cup UpperLetters \cup Digits \cup { "_", "-" }

\* t, all of it, is [a-z_][a-z0-9_-]*[$]?
CoreMatch(t) ==
    /\ Len(t) >= 1
    /\ FirstChar(t[1])
    /\ \A i \in 2..(Len(t) - 1) : RestChar(t[i])
    /\ Len(t) >= 2 => (RestChar(t[Len(t)]) \/ t[Len(t)] = "$")

\* re.match(r'^[a-z_][a-z0-9_-]*[$]?$', s, re.IGNORECASE).  Without
\* re.MULTILINE, Python's $ matches at the end of the string and also just
\* before a newline that is the string's last character.
RegexMatch(s) ==
    \/ CoreMatch(s)
    \/ /\ Len(s) >= 1
       /\ s[Len(s)] = LF
       /\ CoreMatch(SubSeq(s, 1, Len(s) - 1))

\* A variant that also rejects a name of exactly 32 characters.
LengthTestOffByOne(username) == Len(username) >= MaxUsernameLen

LengthTest(username) == Len(username) > MaxUsernameLen

is_valid_username(username) ==
    IF username = << >> THEN FALSE
    ELSE IF ~RegexMatch(username) THEN FALSE
    ELSE IF LengthTest(username) THEN FALSE
    ELSE TRUE

---------------------------------------------------------------------------
(* process_rows: the pieces of the loop body                               *)

NoiseTokens == { << "u", "s", "e", "r", "n", "a", "m", "e" >>,
                 << "r", "e", "s", "u", "l", "t", "s" >>,
                 << "u", "s", "e", "r" >>,
                 << "n", "a", "m", "e" >> }

EscCRLF == << BS, "r", BS, "n" >>
EscLF == << BS, "n" >>

\* A variant that converts the two-character escape before the four-character one.
NormalizeResultsEscLFFirst(results) ==
    Replace(Replace(Replace(Replace(results, EscLF, << LF >>),
                            EscCRLF, << LF >>),
                    << CR, LF >>, << LF >>),
            << CR >>, << LF >>)

\* results.replace('\\r\\n','\n').replace('\\n','\n').replace('\r\n','\n').replace('\r','\n')
NormalizeResults(results) ==
    Replace(Replace(Replace(Replace(results, EscCRLF, << LF >>),
                            EscLF, << LF >>),
                    << CR, LF >>, << LF >>),
            << CR >>, << LF >>)

\* A variant that keeps only the first of equal lines.
SplitLinesUnique(results) ==
    LET all == Split(NormalizeResults(results), LF)
        first == { i \in 1..Len(all) : \A j \in 1..(i - 1) : all[j] # all[i] }
        nth[k \in 1..Cardinality(first)] ==
            CHOOSE i \in first : Cardinality({ j \in first : j < i }) = k - 1
    IN  [ k \in 1..Cardinality(first) |-> all[nth[k]] ]

\* lines = results.split('\n')
SplitLines(results) == Split(NormalizeResults(results), LF)

\* A variant that compares without lower().
IsNoiseExactCase(username) == username \in NoiseTokens

\* username.lower() in ['username', 'results', 'user', 'name']
IsNoise(username) == Lower(username) \in NoiseTokens

\* The body of "for line in lines" decides whether the line is written.
LineEmitted(line) ==
    LET username == Strip(line)
    IN  IF username = << >> THEN FALSE
        ELSE IF IsNoise(username) THEN FALSE
        ELSE is_valid_username(username)

\* The usernames written for one results text, in the order written.
RECURSIVE EmitLines(_)
EmitLines(lines) ==
    IF lines = << >> THEN << >>
    ELSE (IF LineEmitted(lines[1]) THEN << Strip(lines[1]) >> ELSE << >>)
         \o EmitLines(Drop(lines, 2))

RowUsernames(results) == EmitLines(SplitLines(results))

\* What one row with a host writes for its results text: nothing when the
\* text is empty ("if not results: continue").
EmittedForResults(results) == IF results = << >> THEN << >> ELSE RowUsernames(results)

---------------------------------------------------------------------------
(* The input: argv, the header row, the data rows                          *)

MaxRows == 2

\* sys.argv[1:]: the paths themselves do not matter, only how many there are.
ArgvSet == { << >>, << "input.csv" >>, << "input.csv", "output.csv" >> }

\* reader.fieldnames: None for a file with no row at all.
HeaderSet == { << "IP", "Results" >>, << "Results", "IP" >>, << "IP" >>,
               << "Results" >>, << "ip", "results" >> }

root == << "r", "o", "o", "t" >>
bob == << "b", "o", "b" >>
Long32 == [ i \in 1..32 |-> "a" ]
Long33 == [ i \in 1..33 |-> "a" ]

\* Values of the IP column that name a host, and values that name none.
HostValues == { << "1", "0", ".", "1" >>, << SP, "1", "0", ".", "2", SP >> }
EmptyHostValues == { << >>, << SP >> }

\* Values of the Results column.
TextLF == root \o << LF >> \o bob \o << LF >> \o << "N", "a", "m", "e" >> \o << LF >>
TextEscaped == root \o EscCRLF \o root \o EscLF \o << SP, "U", "S", "E", "R", SP >>
TextCR == << "_", "s", "v", "c", "$" >> \o << CR >> \o << "3", "r", "o", "o", "t" >>
              \o << CR, LF >> \o << "b", "a", "d", SP, "u", "s", "e", "r" >>
TextInvalid == << "3", "r", "o", "o", "t" >>
TextLong == Long33 \o << LF >> \o Long32

ResultsValues == { TextLF, TextEscaped, TextCR, TextInvalid, TextLong, << >> }

\* A data row of the file laid out in the header's column order.
MkRow(fn, ipval, resval) == [ i \in 1..Len(fn) |-> IF fn[i] = "IP" THEN ipval ELSE resval ]

\* The rows the file may hold under header fn: full rows, short rows (the
\* first field only), and the blank line.
FullRows(fn) ==
    { MkRow(fn, h, t) : h \in HostValues, t \in ResultsValues }
    \cup { MkRow(fn, h, t) : h \in EmptyHostValues, t \in { TextLF, << >> } }

ShortRows(fn) == { << r[1] >> : r \in FullRows(fn) }

\* open(input_file, 'r') reads with universal newlines: a real CR LF or CR of
\* the file reaches the csv reader as LF.
UniversalNewlines(s) == Replace(Replace(s, << CR, LF >>, << LF >>), << CR >>, << LF >>)

\* csv.DictReader: the row as a dict, read with row.get(key, '').  A key of
\* the header beyond the row's last field holds None (restval).
RowGet(fn, row, key) ==
    IF \E i \in 1..Len(fn) : fn[i] = key
    THEN LET i == CHOOSE j \in 1..Len(fn) : fn[j] = key
         IN  IF i <= Len(row) THEN UniversalNewlines(row[i]) ELSE None
    ELSE << >>

\* A variant that rejects the header only when both columns are missing.
MissingColumnsBoth(fn) ==
    /\ ~(\E i \in 1..Len(fn) : fn[i] = "IP")
    /\ ~(\E i \in 1..Len(fn) : fn[i] = "Results")

\* 'IP' not in reader.fieldnames or 'Results' not in reader.fieldnames
MissingColumns(fn) ==
    \/ ~(\E i \in 1..Len(fn) : fn[i] = "IP")
    \/ ~(\E i \in 1..Len(fn) : fn[i] = "Results")

---------------------------------------------------------------------------
(* The program's state                                                     *)

VARIABLES
    argv,          \* sys.argv[1:]
    pc,            \* Start, Validated, Streaming, Done or Failed
    success,       \* what parse_qualys_csv returned: Unset, "True" or "False"
    exit_status,   \* the status given to sys.exit, NotExited before
    fieldnames,    \* reader.fieldnames once read, Unset before
    read,          \* the file's data rows consumed so far, blank lines included
    out,           \* the rows written to the output destination
    out_created,   \* the output path was opened for writing (created or truncated)
    row_count, user_count,
    in_row,        \* inside "for line in lines" of the current row
    ip, lines, found_users,
    printed,       \* the messages printed, in order
    arg, ret       \* argument and result of a function applied on its own

vars == << argv, pc, success, exit_status, fieldnames, read, out, out_created,
           row_count, user_count, in_row, ip, lines, found_users, printed, arg, ret >>

NotExited == 0 - 1

Msg(stream, kind, row, users) ==
    [ stream |-> stream, kind |-> kind, row |-> row, users |-> users ]

HeaderRow == << << "I", "P" >>, << "U", "s", "e", "r", "n", "a", "m", "e" >> >>

Init ==
    /\ argv \in ArgvSet
    /\ pc = "Start"
    /\ success = Unset
    /\ exit_status = NotExited
    /\ fieldnames = Unset
    /\ read = << >>
    /\ out = << >>
    /\ out_created = FALSE
    /\ row_count = 0
    /\ user_count = 0
    /\ in_row = FALSE
    /\ ip = << >>
    /\ lines = << >>
    /\ found_users = 0
    /\ printed = << >>
    /\ arg = << >>
    /\ ret = << >>

\* parse_qualys_csv returns False after printing an error: the run has failed.
Fail(kind) ==
    /\ pc' = "Failed"
    /\ success' = "False"
    /\ printed' = Append(printed, Msg("stderr", kind, 0, 0))

progress == << row_count, user_count, in_row, ip, lines, found_users >>
fn_vars == << arg, ret >>

---------------------------------------------------------------------------
(* main and parse_qualys_csv                                               *)

\* main: len(sys.argv) < 2: the usage text goes to standard output, exit 1.
Usage ==
    /\ pc = "Start"
    /\ Len(argv) < 1
    /\ printed' = Append(printed, Msg("stdout", "usage", 0, 0))
    /\ exit_status' = 1
    /\ pc' = "Failed"
    /\ UNCHANGED << argv, success, fieldnames, read, out, out_created, progress, fn_vars >>

\* open(input_file) raises: FileNotFoundError has its own handler, any other
\* exception (a directory, no permission) the generic one.
InputNotOpened ==
    /\ pc = "Start"
    /\ Len(argv) >= 1
    /\ \E kind \in { "error_not_found", "error_exception" } : Fail(kind)
    /\ UNCHANGED << argv, exit_status, fieldnames, read, out, out_created, progress, fn_vars >>

\* The file has no row at all: reader.fieldnames is None and the test
\* "'IP' not in None" raises TypeError, which the generic handler reports.
NoHeaderRow ==
    /\ pc = "Start"
    /\ Len(argv) >= 1
    /\ fieldnames' = None
    /\ Fail("error_exception")
    /\ UNCHANGED << argv, exit_status, read, out, out_created, progress, fn_vars >>

\* The column check fails: two lines on standard error, return False.
ColumnCheckFails ==
    /\ pc = "Start"
    /\ Len(argv) >= 1
    /\ \E fn \in HeaderSet :
         /\ MissingColumns(fn)
         /\ fieldnames' = fn
    /\ Fail("error_columns")
    /\ UNCHANGED << argv, exit_status, read, out, out_created, progress, fn_vars >>

ColumnCheckPasses ==
    /\ pc = "Start"
    /\ Len(argv) >= 1
    /\ \E fn \in HeaderSet :
         /\ ~MissingColumns(fn)
         /\ fieldnames' = fn
    /\ pc' = "Validated"
    /\ UNCHANGED << argv, success, exit_status, read, out, out_created, progress,
                    printed, fn_vars >>

\* output_file given: open(output_file, 'w') creates or truncates it, then
\* the header row is written.
WriteHeaderToFile ==
    /\ pc = "Validated"
    /\ Len(argv) >= 2
    /\ out_created' = TRUE
    /\ out' = Append(out, HeaderRow)
    /\ pc' = "Streaming"
    /\ UNCHANGED << argv, success, exit_status, fieldnames, read, progress, printed, fn_vars >>

\* open(output_file, 'w') raises (no such directory: FileNotFoundError; no
\* permission: the generic handler): nothing is written.
OutputNotOpened ==
    /\ pc = "Validated"
    /\ Len(argv) >= 2
    /\ \E kind \in { "error_not_found", "error_exception" } : Fail(kind)
    /\ UNCHANGED << argv, exit_status, fieldnames, read, out, out_created, progress, fn_vars >>

\* A variant whose standard-output branch writes no header row.
WriteHeaderToStdoutOmitted ==
    /\ pc = "Validated"
    /\ Len(argv) = 1
    /\ pc' = "Streaming"
    /\ UNCHANGED << argv, success, exit_status, fieldnames, read, out, out_created,
                    progress, printed, fn_vars >>

\* No output_file: the header row goes to standard output.
WriteHeaderToStdout ==
    /\ pc = "Validated"
    /\ Len(argv) = 1
    /\ out' = Append(out, HeaderRow)
    /\ pc' = "Streaming"
    /\ UNCHANGED << argv, success, exit_status, fieldnames, read, out_created, progress,
                    printed, fn_vars >>

---------------------------------------------------------------------------
(* process_rows                                                            *)

\* csv.DictReader drops a blank line of the file before it yields a row.
SkipBlankLine ==
    /\ pc = "Streaming"
    /\ ~in_row
    /\ Len(read) < MaxRows
    /\ read' = Append(read, << >>)
    /\ UNCHANGED << argv, pc, success, exit_status, fieldnames, out, out_created,
                    progress, printed, fn_vars >>

\* "for row in reader" raises (csv.Error, UnicodeDecodeError): the generic
\* handler of parse_qualys_csv reports it.
ReadError ==
    /\ pc = "Streaming"
    /\ ~in_row
    /\ Len(read) < MaxRows
    /\ Fail("error_exception")
    /\ UNCHANGED << argv, exit_status, fieldnames, read, out, out_created, progress, fn_vars >>

\* One row from the reader, up to the start of "for line in lines".
RowStep(row) ==
    LET n == row_count + 1
        ipval == RowGet(fieldnames, row, "IP")
        results == RowGet(fieldnames, row, "Results")
    IN  /\ read' = Append(read, row)
        /\ row_count' = n
        /\ IF ipval = None
           THEN \* None.strip() raises AttributeError
                /\ Fail("error_exception")
                /\ UNCHANGED << in_row, ip, lines, found_users >>
           ELSE IF Strip(ipval) = << >>
           THEN /\ printed' = Append(printed, Msg("stderr", "warn_no_ip", n, 0))
                /\ ip' = Strip(ipval)
                /\ UNCHANGED << pc, success, in_row, lines, found_users >>
           ELSE IF results = None \/ results = << >>
           THEN /\ printed' = Append(printed, Msg("stderr", "warn_no_results", n, 0))
                /\ ip' = Strip(ipval)
                /\ UNCHANGED << pc, success, in_row, lines, found_users >>
           ELSE /\ ip' = Strip(ipval)
                /\ lines' = SplitLines(results)
                /\ found_users' = 0
                /\ in_row' = TRUE
                /\ UNCHANGED << pc, success, printed >>

NextRow ==
    /\ pc = "Streaming"
    /\ ~in_row
    /\ Len(read) < MaxRows
    /\ \E row \in FullRows(fieldnames) \cup ShortRows(fieldnames) : RowStep(row)
    /\ UNCHANGED << argv, exit_status, fieldnames, out, out_created, user_count, fn_vars >>

\* One iteration of "for line in lines".
ProcessLine ==
    /\ pc = "Streaming"
    /\ in_row
    /\ lines # << >>
    /\ lines' = Drop(lines, 2)
    /\ IF LineEmitted(lines[1])
       THEN /\ out' = Append(out, << ip, Strip(lines[1]) >>)
            /\ user_count' = user_count + 1
            /\ found_users' = found_users + 1
       ELSE UNCHANGED << out, user_count, found_users >>
    /\ UNCHANGED << argv, pc, success, exit_status, fieldnames, read, out_created,
                    row_count, in_row, ip, printed, fn_vars >>

\* After the last line of the row: the warning when nothing was found.
EndRow ==
    /\ pc = "Streaming"
    /\ in_row
    /\ lines = << >>
    /\ in_row' = FALSE
    /\ printed' = IF found_users = 0
                  THEN Append(printed, Msg("stderr", "warn_no_users", row_count, 0))
                  ELSE printed
    /\ UNCHANGED << argv, pc, success, exit_status, fieldnames, read, out, out_created,
                    row_count, user_count, ip, lines, found_users, fn_vars >>

\* A variant with the two numbers of the summary exchanged.
SummarySwapped(rows, users) == Msg("stderr", "summary", users, rows)

\* print(f"Processed {row_count} IPs, found {user_count} user accounts")
Summary(rows, users) == Msg("stderr", "summary", rows, users)

\* The reader is exhausted: the summary line, and parse_qualys_csv returns True.
Finish ==
    /\ pc = "Streaming"
    /\ ~in_row
    /\ printed' = Append(printed, Summary(row_count, user_count))
    /\ success' = "True"
    /\ pc' = "Done"
    /\ UNCHANGED << argv, exit_status, fieldnames, read, out, out_created, progress, fn_vars >>

\* A variant that exits 0 whatever parse_qualys_csv returned.
ExitCodeZero(ok) == 0

\* main: sys.exit(0 if success else 1)
ExitCode(ok) == IF ok = "True" THEN 0 ELSE 1

Exit ==
    /\ pc \in { "Done", "Failed" }
    /\ success # Unset
    /\ exit_status = NotExited
    /\ exit_status' = ExitCode(success)
    /\ UNCHANGED << argv, pc, success, fieldnames, read, out, out_created, progress,
                    printed, fn_vars >>

Next ==
    \/ Usage
    \/ InputNotOpened
    \/ NoHeaderRow
    \/ ColumnCheckFails
    \/ ColumnCheckPasses
    \/ WriteHeaderToFile
    \/ OutputNotOpened
    \/ WriteHeaderToStdout
    \/ SkipBlankLine
    \/ ReadError
    \/ NextRow
    \/ ProcessLine
    \/ EndRow
    \/ Finish
    \/ Exit

Spec == Init /\ [][Next]_vars

---------------------------------------------------------------------------
(* The row pipeline and the validator applied on their own                 *)

MaxLines == 3
MaxNameLen == 3

\* Logical lines: no real line break in any of them.
LineSamples == { << >>, << "a" >>, << "n", "b" >>, << SP, "r", SP >>,
                 << "a", BS, "r" >>, << BS >> }

\* The five encodings of a line break.
Separators == { << LF >>, << CR, LF >>, << CR >>, EscLF, EscCRLF }

\* n logical lines and the n - 1 separators that join them.
JoinInputs(n) ==
    { [ lines |-> ls, seps |-> ss ] :
        ls \in [ 1..n -> LineSamples ], ss \in [ 1..(n - 1) -> Separators ] }

RECURSIVE Join(_, _)
Join(ls, ss) ==
    IF Len(ls) = 1 THEN ls[1]
    ELSE ls[1] \o ss[1] \o Join(Drop(ls, 2), Drop(ss, 2))

idle ==
    /\ argv = << >>
    /\ success = Unset
    /\ exit_status = NotExited
    /\ fieldnames = Unset
    /\ read = << >>
    /\ out = << >>
    /\ out_created = FALSE
    /\ row_count = 0
    /\ user_count = 0
    /\ in_row = FALSE
    /\ ip = << >>
    /\ lines = << >>
    /\ found_users = 0
    /\ printed = << >>

program_vars == << argv, pc, success, exit_status, fieldnames, read, out, out_created,
                   row_count, user_count, in_row, ip, lines, found_users, printed >>

InitNorm ==
    /\ pc = "Normalize"
    /\ idle
    /\ \E n \in 1..MaxLines : arg \in JoinInputs(n)
    /\ ret = << >>

\* The loop body of process_rows on the joined text.
ApplyRow ==
    /\ pc = "Normalize"
    /\ ret = << >>
    /\ ret' = << EmittedForResults(Join(arg.lines, arg.seps)) >>
    /\ UNCHANGED << arg, program_vars >>

SpecNorm == InitNorm /\ [][ApplyRow]_vars

UserAlphabet == { "a", "Z", "3", "_", "-", "$", SP, LF }

PadLens == { 30, 31, 32 }

\* Strings of n characters, and the same after a run of 30 to 32 letters.
UsernameInputs(n) ==
    [ 1..n -> UserAlphabet ]
    \cup { [ i \in 1..k |-> "a" ] \o s : k \in PadLens, s \in [ 1..n -> UserAlphabet ] }

InitUser ==
    /\ pc = "Validate"
    /\ idle
    /\ \E n \in 0..MaxNameLen : arg \in UsernameInputs(n)
    /\ ret = << >>

ApplyValidator ==
    /\ pc = "Validate"
    /\ ret = << >>
    /\ ret' = << is_valid_username(arg) >>
    /\ UNCHANGED << arg, program_vars >>

SpecUser == InitUser /\ [][ApplyValidator]_vars

---------------------------------------------------------------------------
(* The vocabulary of the claims, stated without the program's own steps    *)

\* s without its leading and trailing whitespace.
Trim(s) ==
    LET keep == { i \in 1..Len(s) : s[i] \notin Whitespace }
    IN  IF keep = { } THEN << >>
        ELSE SubSeq(s, CHOOSE i \in keep : \A j \in keep : i <= j,
                       CHOOSE i \in keep : \A j \in keep : j <= i)

IsLetter(c) == c \in LowerLetters \cup UpperLetters

\* A valid username: non-empty, a letter or underscore first, then letters,
\* digits, underscores and hyphens, the last character possibly one dollar
\* sign, at most 32 characters in all.
ValidUsername(s) ==
    /\ s # << >>
    /\ IsLetter(s[1]) \/ s[1] = "_"
    /\ \A i \in 2..Len(s) :
         \/ IsLetter(s[i])
         \/ s[i] \in Digits \cup { "_", "-" }
         \/ i = Len(s) /\ s[i] = "$"
    /\ Len(s) <= 32

SameIgnoringCase(s, t) ==
    /\ Len(s) = Len(t)
    /\ \A i \in 1..Len(s) :
         \/ s[i] = t[i]
         \/ \E k \in 1..26 : { s[i], t[i] } = { LowerSeq[k], UpperSeq[k] }

IsNoiseToken(s) == \E t \in NoiseTokens : SameIgnoringCase(s, t)

\* The length of the line break that starts s: 0 when none does.
BreakLen(s) ==
    IF StartsWith(s, EscCRLF) THEN 4
    ELSE IF StartsWith(s, EscLF) \/ StartsWith(s, << CR, LF >>) THEN 2
    ELSE IF s # << >> /\ s[1] \in { CR, LF } THEN 1
    ELSE 0

\* The candidate lines of a results text: one left-to-right pass that ends a
\* line at each line break, in any of the five encodings.
RECURSIVE CandidateLines(_)
CandidateLines(text) ==
    LET breaks == { i \in 1..Len(text) : BreakLen(Drop(text, i)) > 0 }
    IN  IF breaks = { } THEN << text >>
        ELSE LET i == CHOOSE b \in breaks : \A c \in breaks : b <= c
             IN  << SubSeq(text, 1, i - 1) >>
                 \o CandidateLines(Drop(text, i + BreakLen(Drop(text, i))))

Accepts(line) == ValidUsername(Trim(line)) /\ ~IsNoiseToken(Trim(line))

\* The accepted candidate lines of a text, trimmed, in order of appearance.
AcceptedLines(text) ==
    LET acc == SelectSeq(CandidateLines(text), Accepts)
    IN  [ i \in 1..Len(acc) |-> Trim(acc[i]) ]

\* A field of a data row of the file as the file holds it; None when the row
\* is too short to have it.
Field(fn, row, key) ==
    LET i == CHOOSE j \in 1..Len(fn) : fn[j] = key
    IN  IF i <= Len(row) THEN row[i] ELSE None

HasHost(fn, row) ==
    /\ row # << >>
    /\ Field(fn, row, "IP") # None
    /\ Trim(Field(fn, row, "IP")) # << >>

HasResults(fn, row) ==
    /\ row # << >>
    /\ Field(fn, row, "Results") # None
    /\ Field(fn, row, "Results") # << >>

\* The output rows one input record stands for.
ExpectedRows(fn, row) ==
    IF HasHost(fn, row) /\ HasResults(fn, row)
    THEN LET acc == AcceptedLines(Field(fn, row, "Results"))
         IN  [ i \in 1..Len(acc) |-> << Trim(Field(fn, row, "IP")), acc[i] >> ]
    ELSE << >>

RECURSIVE ExpectedOutput(_, _)
ExpectedOutput(fn, rows) ==
    IF rows = << >> THEN << >>
    ELSE ExpectedRows(fn, rows[1]) \o ExpectedOutput(fn, Drop(rows, 2))

\* The data rows written so far: the output without its header row.
DataRows == IF out = << >> THEN << >> ELSE Tail(out)

IsPrefix(s, t) == Len(s) <= Len(t) /\ SubSeq(t, 1, Len(s)) = s

Records == SelectSeq(read, LAMBDA r : r # << >>)

Kinds == { printed[i].kind : i \in 1..Len(printed) }

ErrorKinds == { "usage", "error_not_found", "error_columns", "error_exception" }
WarningKinds == { "warn_no_ip", "warn_no_results", "warn_no_users" }

HeaderKnown == fieldnames # Unset /\ fieldnames # None

---------------------------------------------------------------------------
(* The claims                                                              *)

\* The input was given but could not be opened, or its header lacks a column.
InputRejected ==
    /\ Len(argv) >= 1
    /\ \/ pc # "Start" /\ fieldnames = Unset
       \/ fieldnames = None
       \/ HeaderKnown /\ ~({ "IP", "Results" } \subseteq { fieldnames[i] : i \in 1..Len(fieldnames) })

\* C1: when the input file cannot be opened, or the header lacks a column
\* named exactly IP or exactly Results, parse_qualys_csv fails, main exits
\* with status 1, and nothing is written: the output path is never opened
\* and no header row is emitted.
C1_RejectedInputWritesNothing ==
    InputRejected =>
        /\ pc = "Failed"
        /\ success = "False"
        /\ out = << >>
        /\ ~out_created
        /\ exit_status \in { NotExited, 1 }

C1_Witness ==
    /\ HeaderKnown
    /\ fieldnames = << "IP" >>
    /\ Len(argv) = 2
    /\ exit_status = 1

\* The accepted candidate lines of the rows, counted whatever the host is.
RECURSIVE AcceptedCount(_, _)
AcceptedCount(fn, rows) ==
    IF rows = << >> THEN 0
    ELSE (IF HasResults(fn, rows[1])
          THEN Len(AcceptedLines(Field(fn, rows[1], "Results")))
          ELSE 0)
         + AcceptedCount(fn, Drop(rows, 2))

\* C2 as stated: when the run completes, the number of data rows equals the
\* number of accepted candidate lines summed over all input rows.
C2_CountOverAllRows ==
    pc = "Done" => Len(DataRows) = AcceptedCount(fieldnames, read)

\* C2 amended: between rows, the number of data rows written equals the
\* number of accepted candidate lines summed over the input rows consumed
\* whose host identifier is not empty after trimming.
C2_CountOverRowsWithHost ==
    (pc \in { "Streaming", "Done", "Failed" } /\ ~in_row) =>
        Len(DataRows) = Len(ExpectedOutput(fieldnames, read))

C2_Witness ==
    /\ pc = "Done"
    /\ Len(read) = 2
    /\ ~HasHost(fieldnames, read[1])
    /\ HasResults(fieldnames, read[1])
    /\ AcceptedLines(Field(fieldnames, read[1], "Results")) # << >>
    /\ Len(DataRows) = 2

\* C5: the exit status is 0 exactly when the run completed (input opened,
\* column check passed, all rows consumed), whatever warnings were printed
\* and however few usernames were found; it is 1 exactly when the usage text
\* or an error was printed.
C5_ExitStatus ==
    exit_status # NotExited =>
        /\ exit_status \in { 0, 1 }
        /\ exit_status = 0 <=> (pc = "Done" /\ Kinds \cap ErrorKinds = { })
        /\ exit_status = 1 <=> (pc = "Failed" /\ Kinds \cap ErrorKinds # { })
        /\ pc = "Done" => (HeaderKnown /\ ~in_row /\ "summary" \in Kinds)

C5_Witness ==
    /\ exit_status = 0
    /\ user_count = 0
    /\ row_count = 2
    /\ Cardinality(Kinds \cap WarningKinds) = 2

\* C7: no data row of the output has a Username that equals, letter case
\* ignored, one of the noise tokens username, results, user, name.
C7_NoNoiseInOutput ==
    \A i \in 1..Len(DataRows) : ~IsNoiseToken(DataRows[i][2])

C7_Witness ==
    /\ pc = "Done"
    /\ Len(read) = 1
    /\ HasHost(fieldnames, read[1])
    /\ HasResults(fieldnames, read[1])
    /\ Field(fieldnames, read[1], "Results") = TextEscaped
    /\ Len(DataRows) = 2

\* C9: the data rows are the in-order concatenation, over the input records
\* in input order, of each record's accepted candidate lines in their order
\* of appearance, each paired with the record's host identifier; nothing is
\* reordered or deduplicated.  Inside a row the rows written so far are a
\* prefix of that concatenation.
C9_OutputInInputOrder ==
    pc \in { "Streaming", "Done", "Failed" } =>
        IF in_row
        THEN /\ IsPrefix(DataRows, ExpectedOutput(fieldnames, read))
             /\ IsPrefix(ExpectedOutput(fieldnames, SubSeq(read, 1, Len(read) - 1)), DataRows)
        ELSE DataRows = ExpectedOutput(fieldnames, read)

C9_Witness ==
    /\ pc = "Done"
    /\ Len(DataRows) = 4
    /\ DataRows[1] = DataRows[2]
    /\ DataRows[3][1] # DataRows[1][1]
    /\ DataRows[3][2] = DataRows[1][2]

\* C10: throughout process_rows user_count is the number of data rows
\* written and row_count the number of input records read, skipped ones
\* included; the summary reports exactly these two numbers.
C10_CountersMatch ==
    /\ user_count = Len(DataRows)
    /\ row_count = Len(Records)
    /\ pc = "Done" =>
         printed[Len(printed)] = Msg("stderr", "summary", Len(Records), Len(DataRows))

C10_Witness ==
    /\ pc = "Done"
    /\ row_count = 2
    /\ user_count = 2
    /\ "warn_no_ip" \in Kinds

\* The record just read has an empty host identifier or an empty results
\* field, a field absent from a short row included.
Skippable(fn, row) == row # << >> /\ ~(HasHost(fn, row) /\ HasResults(fn, row))

\* C6: a record whose host identifier or results field is empty or absent
\* adds no output row, is reported by one warning, and the run goes on to the
\* next record: such a record never makes the run fail.
C6_SkippedRecordContinues ==
    [][ ( /\ pc = "Streaming"
          /\ Len(read') = Len(read) + 1
          /\ Skippable(fieldnames, read'[Len(read')]) )
        => ( /\ out' = out
             /\ pc' = "Streaming"
             /\ ~in_row'
             /\ Len(printed') = Len(printed) + 1
             /\ printed'[Len(printed')].kind \in { "warn_no_ip", "warn_no_results" } ) ]_vars

ExpectedHeader == << << "I", "P" >>, << "U", "s", "e", "r", "n", "a", "m", "e" >> >>

\* After the step the header row is the first row written and is written
\* once; a completed run has written the header and then every emitted row
\* once.
OutputWellFormedNext ==
    /\ out' # << >> =>
         /\ out'[1] = ExpectedHeader
         /\ \A i \in 2..Len(out') : out'[i] # ExpectedHeader
    /\ pc' = "Done" => out' = << ExpectedHeader >> \o ExpectedOutput(fieldnames', read')

Moves(from, to) == pc = from /\ pc' = to

\* C8 as stated: the run only moves Start -> Validated -> Streaming -> Done
\* or Start -> Failed, and a run that reaches Done has written the header
\* once, before any data row, and then every emitted row once.
C8_OnlyStatedMoves ==
    [][ /\ \/ pc' = pc
           \/ Moves("Start", "Validated")
           \/ Moves("Validated", "Streaming")
           \/ Moves("Streaming", "Done")
           \/ Moves("Start", "Failed")
        /\ OutputWellFormedNext ]_vars

\* C8 amended: the run only moves Start -> Validated -> Streaming -> Done,
\* Start -> Failed, or to Failed from Validated or Streaming on a runtime
\* error; a run that reaches Done has written the header once, before any
\* data row, and then every emitted row once.
C8_MovesWithRuntimeErrors ==
    [][ /\ \/ pc' = pc
           \/ Moves("Start", "Validated")
           \/ Moves("Validated", "Streaming")
           \/ Moves("Streaming", "Done")
           \/ Moves("Start", "Failed")
           \/ Moves("Validated", "Failed")
           \/ Moves("Streaming", "Failed")
        /\ OutputWellFormedNext ]_vars

C8_Witness ==
    /\ pc = "Done"
    /\ Len(argv) = 1
    /\ Len(out) = 5

AllLF(n) == [ i \in 1..n |-> << LF >> ]

NoBackslash(ls) == \A i \in 1..Len(ls) : \A j \in 1..Len(ls[i]) : ls[i][j] # BS

\* C3 as stated: whatever logical lines are joined, and whichever of the
\* five separators join them, the rows emitted are those emitted when the
\* same lines are joined by real LF.
C3_AnyLinesAnySeparators ==
    ret # << >> =>
        ret[1] = EmittedForResults(Join(arg.lines, AllLF(Len(arg.seps))))

\* C3 amended: for logical lines that contain no backslash, whichever of the
\* five separators join them, the rows emitted are those emitted when the
\* same lines are joined by real LF.
C3_LinesWithoutBackslash ==
    (ret # << >> /\ NoBackslash(arg.lines)) =>
        ret[1] = EmittedForResults(Join(arg.lines, AllLF(Len(arg.seps))))

C3_Witness ==
    /\ ret # << >>
    /\ NoBackslash(arg.lines)
    /\ arg.seps = << EscCRLF, << CR >> >>
    /\ Len(ret[1]) = 3

\* C4: is_valid_username(s) is True exactly when s is non-empty, starts with
\* a letter or underscore, continues with letters, digits, underscores and
\* hyphens, the last character possibly one dollar sign, and has at most 32
\* characters.
C4_ValidatorIsThePattern ==
    ret # << >> => (ret[1] <=> ValidUsername(arg))

=============================================================================
